---- MODULE Spec2Model ----
(***************************************************************************)
(* A model of the smart-music-suggestor backend: the suggestion pipeline   *)
(* (backend/handler.py) on top of the search client                        *)
(* (backend/communicator.py), the fallback handler and its catalog         *)
(* (backend/fallback.py), the webhook handler with its worker threads      *)
(* (backend/webhook.py) and the socket manager (backend/sockets.py).  Each *)
(* component has its own specification over the same variables.            *)
(*                                                                         *)
(* Python strings are sequences of one-character strings.  An operation    *)
(* that can raise returns a record whose field raised tells whether it     *)
(* did.  The external provider is the environment: each call that reaches  *)
(* it is answered by an outcome the action draws from ExtOutcomes.         *)
(***************************************************************************)
EXTENDS Integers, Sequences, FiniteSets, TLC

VARIABLES
    cache,           \* SuggestionHandler.cache: sanitized query -> ranked results
    request_count,   \* YouTubeCommunicator.request_count
    external_calls,  \* requests the external provider has received
    requests,        \* the calls of handle in progress side by side, each
                     \* with its position
    last,            \* the last invocation: its operation, arguments and outcome
    retry_count,     \* FallbackHandler.retry_count
    failed_attempts, \* calls made by attempt_recovery that raised, so far
    fallback_songs,  \* the module's list FALLBACK_SONGS
    metrics,         \* WebhookHandler.metrics
    posts,           \* the POST /webhook requests, each with its position
    workers,         \* the threads started for accepted requests
    connected,       \* the socket server's connections: sid -> whether it
                     \* has sent join_room since it connected
    connected_clients, \* SocketManager.connected_clients: sid -> username
    rooms,           \* the socket server's rooms: room -> its members
    socket_metrics   \* SocketManager.metrics

handlerVars == <<cache, request_count, external_calls, requests>>
fallbackVars == <<retry_count, failed_attempts, fallback_songs>>
webhookVars == <<metrics, posts, workers>>
socketVars == <<connected, connected_clients, rooms, socket_metrics>>

vars == <<handlerVars, last, fallbackVars, webhookVars, socketVars>>

(***************************************************************************)
(* Bounds of the model.                                                    *)
(***************************************************************************)
MaxLen == 4        \* longest string given to sanitize_query on its own
MaxItems == 2      \* most records in one provider response
MaxRequests == 2   \* cap on request_count

(***************************************************************************)
(* Python values.                                                          *)
(***************************************************************************)
None == "<None>"

\* Sequences over S of length at most n.
SeqsUpTo(S, n) == UNION {[1..k -> S] : k \in 0..n}

(***************************************************************************)
(* Characters.  \w of a str pattern: alphanumerics and the underscore;     *)
(* \s and str.strip(): whitespace.                                         *)
(***************************************************************************)
Alphabet == {"a", "7", "_", "!", " ", "\t"}

IsSpace(c) == c \in {" ", "\t"}

IsAlnum(c) == c \in {"a", "b", "7"}

IsWord(c) == IsAlnum(c) \/ c = "_"

Strings == SeqsUpTo(Alphabet, MaxLen)

RECURSIVE lstrip(_)
lstrip(s) ==
    IF s # <<>> /\ IsSpace(Head(s)) THEN lstrip(Tail(s)) ELSE s

RECURSIVE rstrip(_)
rstrip(s) ==
    IF s # <<>> /\ IsSpace(s[Len(s)]) THEN rstrip(SubSeq(s, 1, Len(s) - 1)) ELSE s

\* str.strip()
strip(s) == rstrip(lstrip(s))

\* re.sub(r'[^\w\s]', '', s)
RemoveNonWordNonSpace(s) == SelectSeq(s, LAMBDA c : IsWord(c) \/ IsSpace(c))

\* re.sub(r'\s+', ' ', s): every maximal run of whitespace becomes one space
RECURSIVE CollapseWhitespace(_)
CollapseWhitespace(s) ==
    IF s = <<>> THEN <<>>
    ELSE IF IsSpace(Head(s))
         THEN <<" ">> \o CollapseWhitespace(lstrip(s))
         ELSE <<Head(s)>> \o CollapseWhitespace(Tail(s))

\* A plausible slip: the query is trimmed first, not last.
sanitize_query_StripFirst(query) ==
    CollapseWhitespace(RemoveNonWordNonSpace(strip(query)))

\* A plausible slip: runs of whitespace are left as they are.
sanitize_query_NoCollapse(query) == strip(RemoveNonWordNonSpace(query))

\* SuggestionHandler.sanitize_query
sanitize_query(query) ==
    strip(CollapseWhitespace(RemoveNonWordNonSpace(query)))

(***************************************************************************)
(* The external provider's response records.  An item's id is the value    *)
(* item.get("id", {}).get("videoId") sees: a video id, "" or None, Absent  *)
(* when the key is missing, Malformed when "id" is not an object, so that  *)
(* .get raises AttributeError.  Its title is snippet.get("title"): a       *)
(* string, or None when there is none.  The description and the thumbnail  *)
(* are copied like the title and nothing reads them: they are left out.    *)
(***************************************************************************)
Absent == "<absent>"

Malformed == "<malformed>"

VideoIds == {"v1", "v2"}

IdVals == VideoIds \cup {"", None, Absent, Malformed}

TitleVals == {"Ab", "Abc", None}

Items == [id : IdVals, title : TitleVals]

\* The responses the provider answers the calls of search with: none, one
\* or two records; a record without an identifier before a good one; a
\* record without a title; a record whose id is not an object.
ProviderResponses ==
    { <<>>,
      << [id |-> "v1", title |-> "Ab"] >>,
      << [id |-> "v1", title |-> "Ab"], [id |-> "v2", title |-> "Abc"] >>,
      << [id |-> None, title |-> "Ab"], [id |-> "v2", title |-> "Abc"] >>,
      << [id |-> "v2", title |-> None] >>,
      << [id |-> "v1", title |-> "Ab"], [id |-> Malformed, title |-> "Abc"] >> }

\* What one external call can do: answer with at most limit records
\* (maxResults), or raise HttpError, or raise something else.
ExtOutcomes(limit) ==
    {[kind |-> "ok", items |-> r] : r \in {x \in ProviderResponses : Len(x) <= limit}}
        \cup {[kind |-> "HttpError", items |-> <<>>],
              [kind |-> "Exception", items |-> <<>>]}

\* No external call was made.
NoCall == [kind |-> "none", items |-> <<>>]

(***************************************************************************)
(* backend/communicator.py                                                 *)
(***************************************************************************)
DEFAULT_MAX_RESULTS == 7

\* A plausible slip: "if video_id is None" lets the empty identifier through.
Falsy_IsNone(v) == v \in {None, Absent}

\* Python truth value of an identifier: "if not video_id"
Falsy(v) == v \in {"", None, Absent}

\* The loop of _parse_response over the items left, normalized_results so far.
RECURSIVE ParseLoop(_, _)
ParseLoop(items, normalized_results) ==
    IF items = <<>> THEN [raised |-> FALSE, value |-> normalized_results]
    ELSE LET item == Head(items) IN
         IF item.id = Malformed
         THEN [raised |-> TRUE, value |-> <<>>]
         ELSE IF Falsy(item.id)
              THEN ParseLoop(Tail(items), normalized_results)
              ELSE ParseLoop(Tail(items),
                             Append(normalized_results,
                                    [title |-> item.title, video_id |-> item.id]))

\* YouTubeCommunicator._parse_response; response is response.get("items", [])
_parse_response(response) == ParseLoop(response, <<>>)

\* YouTubeCommunicator._execute_search: the one external call; ext is what
\* the provider does with it.
_execute_search(query, max_results, ext) ==
    IF ext.kind = "ok"
    THEN [raised |-> FALSE, value |-> ext.items, exc |-> "none"]
    ELSE [raised |-> TRUE, value |-> <<>>, exc |-> ext.kind]

\* YouTubeCommunicator._increment_request_counter
_increment_request_counter(count) == count + 1

\* "max_results or self.DEFAULT_MAX_RESULTS"; 0 stands for None and for 0.
EffectiveLimit(max_results) ==
    IF max_results = 0 THEN DEFAULT_MAX_RESULTS ELSE max_results

\* The try block of search: the external call, then the normalization.
\* exc names what it raised.
SearchTry(query, limit, ext) ==
    LET raw_response == _execute_search(query, limit, ext) IN
    IF raw_response.raised
    THEN [raised |-> TRUE, value |-> <<>>, exc |-> raw_response.exc]
    ELSE LET parsed == _parse_response(raw_response.value) IN
         IF parsed.raised
         THEN [raised |-> TRUE, value |-> <<>>, exc |-> "AttributeError"]
         ELSE [raised |-> FALSE, value |-> parsed.value, exc |-> "none"]

\* A plausible slip: the empty query is not turned away.
search_NoEmptyCheck(query, max_results, ext) ==
    LET t == SearchTry(query, EffectiveLimit(max_results), ext) IN
    [raised |-> FALSE, value |-> IF t.raised THEN <<>> ELSE t.value,
     failed |-> t.raised, ext |-> ext,
     limit |-> EffectiveLimit(max_results),
     request_count |-> _increment_request_counter(request_count),
     external_calls |-> external_calls + 1]

\* A plausible slip: only HttpError is caught.
search_OnlyHttpError(query, max_results, ext) ==
    IF query = <<>>
    THEN [raised |-> FALSE, value |-> <<>>, failed |-> FALSE, ext |-> NoCall,
          limit |-> 0, request_count |-> request_count,
          external_calls |-> external_calls]
    ELSE LET t == SearchTry(query, EffectiveLimit(max_results), ext) IN
         [raised |-> t.raised /\ t.exc # "HttpError",
          value |-> IF t.raised THEN <<>> ELSE t.value,
          failed |-> t.raised, ext |-> ext,
          limit |-> EffectiveLimit(max_results),
          request_count |-> _increment_request_counter(request_count),
          external_calls |-> external_calls + 1]

\* A plausible slip: the counter is incremented before the empty-query check.
search_CountFirst(query, max_results, ext) ==
    IF query = <<>>
    THEN [raised |-> FALSE, value |-> <<>>, failed |-> FALSE, ext |-> NoCall,
          limit |-> 0,
          request_count |-> _increment_request_counter(request_count),
          external_calls |-> external_calls]
    ELSE LET t == SearchTry(query, EffectiveLimit(max_results), ext) IN
         [raised |-> FALSE, value |-> IF t.raised THEN <<>> ELSE t.value,
          failed |-> t.raised, ext |-> ext,
          limit |-> EffectiveLimit(max_results),
          request_count |-> _increment_request_counter(request_count),
          external_calls |-> external_calls + 1]

\* YouTubeCommunicator.search.  Both except clauses return []: nothing the
\* try block raises leaves search.  The result carries the state search
\* leaves: request_count, and the provider's count of calls received.  ext
\* is "none" when the provider was not called; failed tells that an except
\* clause ran.
search(query, max_results, ext) ==
    IF query = <<>>
    THEN [raised |-> FALSE, value |-> <<>>, failed |-> FALSE, ext |-> NoCall,
          limit |-> 0, request_count |-> request_count,
          external_calls |-> external_calls]
    ELSE LET t == SearchTry(query, EffectiveLimit(max_results), ext) IN
         [raised |-> FALSE, value |-> IF t.raised THEN <<>> ELSE t.value,
          failed |-> t.raised, ext |-> ext,
          limit |-> EffectiveLimit(max_results),
          request_count |-> _increment_request_counter(request_count),
          external_calls |-> external_calls + 1]

\* The probe query of health_check.
TestQuery == <<"t", "e", "s", "t">>

\* YouTubeCommunicator.health_check: True unless search raises.
health_check(ext) ==
    LET s == search(TestQuery, 1, ext) IN
    [raised |-> FALSE, value |-> ~s.raised, failed |-> s.failed, ext |-> s.ext,
     limit |-> s.limit, request_count |-> s.request_count,
     external_calls |-> s.external_calls]

(***************************************************************************)
(* backend/fallback.py                                                     *)
(***************************************************************************)
FALLBACK_SONGS ==
    << [title |-> "Shape of You", video_id |-> "JGwWNGJdvx8"],
       [title |-> "Blinding Lights", video_id |-> "4NRXx6U8ABQ"],
       [title |-> "Levitating", video_id |-> "TUVcZfQe-Kw"],
       [title |-> "Dance Monkey", video_id |-> "q0hyYWKXF0Q"],
       [title |-> "Someone You Loved", video_id |-> "zABLecsR5UE"] >>

\* "self.max_retries = 3"
max_retries == 3

\* "def get_songs(self, limit: int = 5)"
DEFAULT_LIMIT == 5

\* min(a, b)
Min(a, b) == IF a < b THEN a ELSE b

\* FallbackHandler.__init__, and the catalog as the module defines it
InitFallback ==
    /\ retry_count = 0
    /\ failed_attempts = 0
    /\ fallback_songs = FALLBACK_SONGS

\* random.sample(population, k): the lists made of the elements at k
\* different positions, in every order; ValueError when k is negative or
\* larger than the population.
sample(population, k) ==
    IF k < 0 \/ k > Len(population)
    THEN {[raised |-> TRUE, value |-> <<>>]}
    ELSE {[raised |-> FALSE, value |-> [i \in 1..k |-> population[p[i]]]] :
              p \in {f \in [1..k -> 1..Len(population)] :
                        \A i, j \in 1..k : i # j => f[i] # f[j]}}

\* A plausible slip: random.choices, which draws with replacement.
get_songs_WithReplacement(limit) ==
    LET k == Min(limit, Len(fallback_songs)) IN
    IF k < 0
    THEN {[raised |-> TRUE, value |-> <<>>, songs |-> fallback_songs]}
    ELSE {[raised |-> FALSE, value |-> [i \in 1..k |-> fallback_songs[p[i]]],
           songs |-> fallback_songs] :
              p \in [1..k -> 1..Len(fallback_songs)]}

\* FallbackHandler.get_songs: the outcomes it can have, each with the list
\* returned and the catalog it leaves.
get_songs(limit) ==
    {[raised |-> r.raised, value |-> r.value, songs |-> fallback_songs] :
        r \in sample(fallback_songs, Min(limit, Len(fallback_songs)))}

\* A plausible slip: the counter counts every call of func, the one that
\* returns included.
RECURSIVE RecoveryLoop_CountsCalls(_, _, _)
RecoveryLoop_CountsCalls(rc, func, calls) ==
    IF rc < max_retries
    THEN IF func[calls + 1] = "return"
         THEN [returned |-> "result", retry_count |-> rc + 1,
               calls |-> calls + 1]
         ELSE RecoveryLoop_CountsCalls(rc + 1, func, calls + 1)
    ELSE [returned |-> "fallback", retry_count |-> rc, calls |-> calls]

\* A plausible slip: the counter is tested after the call, not before it.
RECURSIVE RecoveryLoop_CallFirst(_, _, _)
RecoveryLoop_CallFirst(rc, func, calls) ==
    IF func[calls + 1] = "return"
    THEN [returned |-> "result", retry_count |-> rc, calls |-> calls + 1]
    ELSE IF rc + 1 < max_retries
         THEN RecoveryLoop_CallFirst(rc + 1, func, calls + 1)
         ELSE [returned |-> "fallback", retry_count |-> rc + 1,
               calls |-> calls + 1]

\* The while loop of attempt_recovery, entered with self.retry_count = rc
\* after func has been called calls times.  func[i] tells whether the i-th
\* call of func returns or raises.
RECURSIVE RecoveryLoop(_, _, _)
RecoveryLoop(rc, func, calls) ==
    IF rc < max_retries
    THEN IF func[calls + 1] = "return"
         THEN [returned |-> "result", retry_count |-> rc, calls |-> calls + 1]
         ELSE RecoveryLoop(rc + 1, func, calls + 1)
    ELSE [returned |-> "fallback", retry_count |-> rc, calls |-> calls]

\* The outcomes of an invocation whose loop ended as in loop.
RecoveryOutcomes(loop) ==
    IF loop.returned = "result"
    THEN {[returned |-> "result", raised |-> FALSE, value |-> <<>>,
           retry_count |-> loop.retry_count, calls |-> loop.calls,
           songs |-> fallback_songs]}
    ELSE {[returned |-> "fallback", raised |-> s.raised, value |-> s.value,
           retry_count |-> loop.retry_count, calls |-> loop.calls,
           songs |-> s.songs] : s \in get_songs(DEFAULT_LIMIT)}

\* A plausible slip: every invocation starts its count afresh.
attempt_recovery_Reset(func) == RecoveryOutcomes(RecoveryLoop(0, func, 0))

\* FallbackHandler.attempt_recovery: the outcomes it can have.
attempt_recovery(func) == RecoveryOutcomes(RecoveryLoop(retry_count, func, 0))

(***************************************************************************)
(* backend/webhook.py                                                      *)
(***************************************************************************)
\* WebhookHandler.__init__; no request has arrived
InitWebhook ==
    /\ metrics = [events_received |-> 0, events_processed |-> 0,
                  events_failed |-> 0]
    /\ posts = <<>>
    /\ workers = <<>>

\* The bodies posted to /webhook.  json is what the body parses to;
\* event_type and data are the members of an object, Absent when it has no
\* such member; data is told apart only as an object or another value.
WebhookBodies ==
    { [json |-> "unparsable", event_type |-> Absent, data |-> Absent],
      [json |-> "array", event_type |-> Absent, data |-> Absent],
      [json |-> "object", event_type |-> Absent, data |-> "object"],
      [json |-> "object", event_type |-> "song_update", data |-> Absent],
      [json |-> "object", event_type |-> "song_update", data |-> "object"],
      [json |-> "object", event_type |-> "song_update", data |-> "string"],
      [json |-> "object", event_type |-> "playlist_update", data |-> "object"],
      [json |-> "object", event_type |-> "other", data |-> "string"] }

\* str(e) of the BadRequest that get_json raises.
BadRequestMessage == "400 Bad Request"

\* request.get_json(force=True): raises on a body that is not JSON
get_json(body) ==
    IF body.json = "unparsable"
    THEN [raised |-> TRUE, message |-> BadRequestMessage]
    ELSE [raised |-> FALSE, message |-> ""]

\* A plausible slip: the data member is not asked for.
_validate_payload_NoDataCheck(payload) ==
    IF payload.json # "object"
    THEN [raised |-> TRUE, message |-> "Payload must be a JSON object"]
    ELSE IF payload.event_type = Absent
    THEN [raised |-> TRUE, message |-> "Missing 'event_type' field"]
    ELSE [raised |-> FALSE, message |-> ""]

\* WebhookHandler._validate_payload
_validate_payload(payload) ==
    IF payload.json # "object"
    THEN [raised |-> TRUE, message |-> "Payload must be a JSON object"]
    ELSE IF payload.event_type = Absent
    THEN [raised |-> TRUE, message |-> "Missing 'event_type' field"]
    ELSE IF payload.data = Absent
    THEN [raised |-> TRUE, message |-> "Missing 'data' field"]
    ELSE [raised |-> FALSE, message |-> ""]

\* payload.get("data", {}).get(...): whether it raises.  Only an object
\* has a get.
DataGetRaises(payload) == payload.data \notin {Absent, "object"}

\* WebhookHandler._handle_song_update: whether it raises
_handle_song_update(payload) == DataGetRaises(payload)

\* WebhookHandler._handle_playlist_update: whether it raises
_handle_playlist_update(payload) == DataGetRaises(payload)

\* WebhookHandler._handle_generic: whether it raises
_handle_generic(payload) == FALSE

\* A plausible slip: an event type without a handler of its own is an error.
_process_event_NoGeneric(payload) ==
    IF payload.event_type = "song_update"
    THEN IF _handle_song_update(payload) THEN "events_failed"
         ELSE "events_processed"
    ELSE IF payload.event_type = "playlist_update"
    THEN IF _handle_playlist_update(payload) THEN "events_failed"
         ELSE "events_processed"
    ELSE "events_failed"

\* WebhookHandler._process_event up to its increment: the counter it goes
\* on to increment.
_process_event(payload) ==
    LET raises ==
            IF payload.event_type = "song_update"
            THEN _handle_song_update(payload)
            ELSE IF payload.event_type = "playlist_update"
            THEN _handle_playlist_update(payload)
            ELSE _handle_generic(payload)
    IN  IF raises THEN "events_failed" ELSE "events_processed"

\* The payload simulate_event builds: "data or {}"
simulate_event(event_type, data) ==
    [json |-> "object", event_type |-> event_type,
     data |-> IF data \in {None, ""} THEN "object" ELSE data]

(***************************************************************************)
(* backend/sockets.py                                                      *)
(***************************************************************************)
\* The rooms of the model; "global" is the default of every handler.
RoomNames == {"global", "r"}

\* SocketManager.__init__; no connection yet
InitSockets ==
    /\ connected = <<>>
    /\ connected_clients = <<>>
    /\ rooms = [room \in RoomNames |-> {}]
    /\ socket_metrics = [connections |-> 0, disconnections |-> 0,
                         events_received |-> 0]

\* The connection identifiers.  self.socketio.server.eio_sid is read as the
\* identifier of the connection whose event is being handled.
Sids == {"s1", "s2"}

\* dict.get(key, default)
get(data, key, default) == IF key \in DOMAIN data THEN data[key] ELSE default

\* dict.pop(key, None): the dict without the key
pop(dict, key) == [k \in DOMAIN dict \ {key} |-> dict[k]]

\* dict[key] = value
setitem(dict, key, value) ==
    [k \in DOMAIN dict \cup {key} |-> IF k = key THEN value ELSE dict[k]]

\* str(n) of a small number
str(n) == <<"0", "1", "2", "3", "4", "5">>[n + 1]

\* s[:n]
Prefix(s, n) == SubSeq(s, 1, Min(n, Len(s)))

\* A plausible slip: the identifier is built on the whole query.
generate_suggestions_WholeQuery(query) ==
    [k \in 1..5 |->
        [title |-> query \o <<" song ", str(k)>>,
         video_id |-> query \o <<"_", str(k - 1)>>,
         thumbnail |-> <<"https://i.ytimg.com/vi/">> \o query
                           \o <<"_", str(k - 1), "/default.jpg">>]]

\* SocketManager.generate_suggestions: the list for i in range(5), the
\* record of i at position i + 1.  The literal parts of the f-strings are
\* kept in one piece each.
generate_suggestions(query) ==
    [k \in 1..5 |->
        [title |-> query \o <<" song ", str(k)>>,
         video_id |-> Prefix(query, 3) \o <<"_", str(k - 1)>>,
         thumbnail |-> <<"https://i.ytimg.com/vi/">> \o Prefix(query, 3)
                           \o <<"_", str(k - 1), "/default.jpg">>]]

\* emit(event, payload, room=room): one message to the members the room
\* has when emit is called
emit(event, payload, room, members) ==
    [event |-> event, payload |-> payload, room |-> room, to |-> members]

\* join_room(room) and leave_room(room) of flask_socketio, for sid
join_room(rms, room, sid) == [rms EXCEPT ![room] = @ \cup {sid}]
leave_room(rms, room, sid) == [rms EXCEPT ![room] = @ \ {sid}]

\* handle_connect: what it leaves and emits.  emit without a room answers
\* the connection itself.
handle_connect(sid) ==
    [metrics |-> [socket_metrics EXCEPT !.connections = @ + 1],
     connected_clients |-> connected_clients,
     rooms |-> rooms,
     emitted |-> <<emit("connected",
                        [message |-> "Welcome to SHUBHAMOS Auto Suggestor"],
                        None, {sid})>>]

\* handle_disconnect
handle_disconnect(sid) ==
    [metrics |-> [socket_metrics EXCEPT !.disconnections = @ + 1],
     connected_clients |-> pop(connected_clients, sid),
     rooms |-> rooms,
     emitted |-> <<>>]

\* A plausible slip: the client is not entered in the registry.
handle_join_room_NoRegister(sid, data) ==
    LET room == get(data, "room", "global")
        username == get(data, "username", "anonymous")
        joined == join_room(rooms, room, sid)
    IN  [metrics |-> socket_metrics,
         connected_clients |-> connected_clients,
         rooms |-> joined,
         emitted |-> <<emit("room_joined",
                            [room |-> room, username |-> username],
                            room, joined[room])>>]

\* handle_join_room
handle_join_room(sid, data) ==
    LET room == get(data, "room", "global")
        username == get(data, "username", "anonymous")
        joined == join_room(rooms, room, sid)
    IN  [metrics |-> socket_metrics,
         connected_clients |-> setitem(connected_clients, sid, username),
         rooms |-> joined,
         emitted |-> <<emit("room_joined",
                            [room |-> room, username |-> username],
                            room, joined[room])>>]

\* A plausible slip: the notification is sent before the room is left.
handle_leave_room_EmitFirst(sid, data) ==
    LET room == get(data, "room", "global")
        username == get(connected_clients, sid, "anonymous")
    IN  [metrics |-> socket_metrics,
         connected_clients |-> connected_clients,
         rooms |-> leave_room(rooms, room, sid),
         emitted |-> <<emit("room_left",
                            [room |-> room, username |-> username],
                            room, rooms[room])>>]

\* handle_leave_room: leave_room(room) comes before emit
handle_leave_room(sid, data) ==
    LET room == get(data, "room", "global")
        username == get(connected_clients, sid, "anonymous")
        left == leave_room(rooms, room, sid)
    IN  [metrics |-> socket_metrics,
         connected_clients |-> connected_clients,
         rooms |-> left,
         emitted |-> <<emit("room_left",
                            [room |-> room, username |-> username],
                            room, left[room])>>]

\* handle_suggestion_update
handle_suggestion_update(sid, data) ==
    LET query == get(data, "query", <<>>)
        room == get(data, "room", "global")
        suggestions == generate_suggestions(query)
    IN  [metrics |-> [socket_metrics EXCEPT !.events_received = @ + 1],
         connected_clients |-> connected_clients,
         rooms |-> rooms,
         emitted |-> <<emit("suggestions",
                            [query |-> query, results |-> suggestions],
                            room, rooms[room])>>]

(***************************************************************************)
(* backend/handler.py                                                      *)
(***************************************************************************)
\* "from backend.fallback import fallback_response": backend/fallback.py
\* defines no fallback_response (it defines FallbackHandler and the two
\* catalogs), so the name has no value to call: using it raises.
fallback_response == [raised |-> TRUE, value |-> <<>>, exc |-> "ImportError"]

\* Where x goes in a list sorted by title length, longest first: behind
\* every record at least as long (sorted is stable).
RECURSIVE InsertByTitleLen(_, _)
InsertByTitleLen(sorted, x) ==
    IF sorted = <<>> THEN <<x>>
    ELSE IF Len(Head(sorted).title) >= Len(x.title)
         THEN <<Head(sorted)>> \o InsertByTitleLen(Tail(sorted), x)
         ELSE <<x>> \o sorted

\* sorted(results, key=lambda x: len(x['title']), reverse=True)
RECURSIVE SortedByTitleLen(_)
SortedByTitleLen(results) ==
    IF results = <<>> THEN <<>>
    ELSE InsertByTitleLen(SortedByTitleLen(SubSeq(results, 1, Len(results) - 1)),
                          results[Len(results)])

\* random.shuffle: every order of the list
Shuffles(list) ==
    {[i \in 1..Len(list) |-> list[p[i]]] : p \in Permutations(1..Len(list))}

\* A plausible slip: the slice of the ranking stops one record short.
_rank_results_DropsLast(results) ==
    IF \E i \in 1..Len(results) : results[i].title = None
    THEN {[raised |-> TRUE, value |-> <<>>]}
    ELSE {[raised |-> FALSE, value |-> SubSeq(ranked, 1, Len(ranked) - 1)] :
              ranked \in Shuffles(SortedByTitleLen(results))}

\* SuggestionHandler._rank_results: the outcomes it can have.  len(None)
\* raises TypeError.
_rank_results(results) ==
    IF \E i \in 1..Len(results) : results[i].title = None
    THEN {[raised |-> TRUE, value |-> <<>>]}
    ELSE {[raised |-> FALSE, value |-> ranked] :
              ranked \in Shuffles(SortedByTitleLen(results))}

\* A plausible slip: the length is taken before the query is trimmed.
Trimmed_NoStrip(q) == q

\* request.args.get("q", "").strip()
Trimmed(q) == strip(q)

\* A plausible slip: the cache is looked up by the raw query.
CacheKey_Raw(raw_query) == raw_query

\* The cache key of a trimmed query: "query = self.sanitize_query(raw_query)"
CacheKey(raw_query) == sanitize_query(raw_query)

\* The except clause of handle, after search left the counters as in s.
HandleExcept(s) ==
    LET f == fallback_response IN
    [status |-> IF f.raised THEN "raised" ELSE "ok", result |-> f.value,
     path |-> "except", ext |-> s.ext, failed |-> s.failed, cache |-> cache,
     request_count |-> s.request_count, external_calls |-> s.external_calls]

\* SuggestionHandler.handle on the query string q, ext being what the
\* provider does if it is called: the outcomes handle can have, each with
\* the response (status, result) and the state it leaves.  path names the
\* return statement taken.
handle(q, ext) ==
    LET raw_query == Trimmed(q) IN
    IF Len(raw_query) < 2
    THEN {[status |-> "ok", result |-> <<>>, path |-> "short", ext |-> NoCall,
           failed |-> FALSE, cache |-> cache, request_count |-> request_count,
           external_calls |-> external_calls]}
    ELSE LET query == CacheKey(raw_query) IN
         IF query \in DOMAIN cache
         THEN {[status |-> "ok", result |-> cache[query], path |-> "hit",
                ext |-> NoCall, failed |-> FALSE, cache |-> cache,
                request_count |-> request_count,
                external_calls |-> external_calls]}
         ELSE LET s == search(query, 0, ext) IN
              IF s.raised THEN {HandleExcept(s)}
              ELSE {IF ranked.raised THEN HandleExcept(s)
                    ELSE [status |-> "ok", result |-> ranked.value,
                          path |-> "miss", ext |-> s.ext, failed |-> s.failed,
                          cache |-> [k \in DOMAIN cache \cup {query} |->
                                        IF k = query THEN ranked.value
                                        ELSE cache[k]],
                          request_count |-> s.request_count,
                          external_calls |-> s.external_calls] :
                        ranked \in _rank_results(s.value)}

(***************************************************************************)
(* The state machine: one process serving requests one at a time.          *)
(***************************************************************************)
\* The query strings given to handle.
RawQueries ==
    { <<>>, <<"a">>, <<" ", "a">>, <<"!">>,
      <<"a", "b">>, <<" ", "a", "b">>, <<"a", "!", "b">>,
      <<"a", " ", "b">>, <<"a", "\t", " ", "b">>,
      <<"a", "!">>, <<"!", "!">> }

\* The queries given to search by callers other than handle.
SearchQueries == { <<>>, <<"a">>, <<"a", "b">> }

\* The max_results they give; 0 stands for None.
SearchLimits == 0..2

\* SuggestionHandler.__init__ and YouTubeCommunicator.__init__
InitHandler ==
    /\ cache = <<>>
    /\ request_count = 0
    /\ external_calls = 0
    /\ requests = <<>>

Init ==
    /\ InitHandler
    /\ InitFallback
    /\ InitWebhook
    /\ InitSockets
    /\ last = [op |-> "init"]

\* GET /suggest?q=...
Handle ==
    \E q \in RawQueries, ext \in ExtOutcomes(DEFAULT_MAX_RESULTS) :
        \E r \in handle(q, ext) :
            /\ r.request_count <= MaxRequests
            /\ cache' = r.cache
            /\ request_count' = r.request_count
            /\ external_calls' = r.external_calls
            /\ last' = [op |-> "handle", arg |-> q, max_results |-> 0,
                        status |-> r.status, result |-> r.result,
                        path |-> r.path, ext |-> r.ext, failed |-> r.failed,
                        limit |-> 0]
            /\ UNCHANGED <<requests, fallbackVars, webhookVars, socketVars>>

\* A direct call of YouTubeCommunicator.search
Search ==
    \E query \in SearchQueries, max_results \in SearchLimits :
        \E ext \in ExtOutcomes(EffectiveLimit(max_results)) :
            LET r == search(query, max_results, ext) IN
            /\ r.request_count <= MaxRequests
            /\ request_count' = r.request_count
            /\ external_calls' = r.external_calls
            /\ last' = [op |-> "search", arg |-> query,
                        max_results |-> max_results,
                        status |-> IF r.raised THEN "raised" ELSE "ok",
                        result |-> r.value, path |-> "search", ext |-> r.ext,
                        failed |-> r.failed, limit |-> r.limit]
            /\ UNCHANGED <<cache, requests, fallbackVars, webhookVars, socketVars>>

\* A call of YouTubeCommunicator.health_check
HealthCheck ==
    \E ext \in ExtOutcomes(1) :
        LET r == health_check(ext) IN
        /\ r.request_count <= MaxRequests
        /\ request_count' = r.request_count
        /\ external_calls' = r.external_calls
        /\ last' = [op |-> "health_check", arg |-> TestQuery, max_results |-> 1,
                    status |-> IF r.raised THEN "raised" ELSE "ok",
                    result |-> <<>>, healthy |-> r.value,
                    path |-> "health_check", ext |-> r.ext,
                    failed |-> r.failed, limit |-> r.limit]
        /\ UNCHANGED <<cache, requests, fallbackVars, webhookVars, socketVars>>

Next == Handle \/ Search \/ HealthCheck

Spec == Init /\ [][Next]_vars

(***************************************************************************)
(* The pure functions on their own, over every input within the bounds.    *)
(***************************************************************************)
InitPure ==
    /\ InitHandler
    /\ InitFallback
    /\ InitWebhook
    /\ InitSockets
    /\ \/ \E q \in Strings :
              last = [op |-> "call", fn |-> "sanitize_query", arg |-> q]
       \/ \E response \in SeqsUpTo(Items, MaxItems) :
              last = [op |-> "call", fn |-> "_parse_response", arg |-> response]

SanitizeCall ==
    /\ last.op = "call"
    /\ last.fn = "sanitize_query"
    /\ last' = [op |-> "sanitize_query", arg |-> last.arg,
                result |-> sanitize_query(last.arg)]
    /\ UNCHANGED <<handlerVars, fallbackVars, webhookVars, socketVars>>

ParseCall ==
    /\ last.op = "call"
    /\ last.fn = "_parse_response"
    /\ LET r == _parse_response(last.arg) IN
       last' = [op |-> "_parse_response", arg |-> last.arg,
                raised |-> r.raised, result |-> r.value]
    /\ UNCHANGED <<handlerVars, fallbackVars, webhookVars, socketVars>>

NextPure == SanitizeCall \/ ParseCall

SpecPure == InitPure /\ [][NextPure]_vars

(***************************************************************************)
(* The fallback handler on its own: one FallbackHandler, called again and  *)
(* again.                                                                  *)
(***************************************************************************)
MaxLimit == 6      \* largest limit given to get_songs

\* The limits given to get_songs.
SongLimits == -1..MaxLimit

\* The functions given to attempt_recovery, each by what its successive
\* calls do.
RecoveryFuncs == [1..max_retries -> {"raise", "return"}]

\* A call of FallbackHandler.attempt_recovery
AttemptRecovery ==
    \E func \in RecoveryFuncs :
        \E r \in attempt_recovery(func) :
            /\ retry_count' = r.retry_count
            /\ failed_attempts' = failed_attempts
                   + Cardinality({i \in 1..r.calls : func[i] = "raise"})
            /\ fallback_songs' = r.songs
            /\ last' = [op |-> "attempt_recovery", func |-> func,
                        before |-> retry_count, calls |-> r.calls,
                        returned |-> r.returned, raised |-> r.raised,
                        result |-> r.value]
            /\ UNCHANGED <<handlerVars, webhookVars, socketVars>>

\* A call of FallbackHandler.get_songs
GetSongs ==
    \E limit \in SongLimits :
        \E r \in get_songs(limit) :
            /\ fallback_songs' = r.songs
            /\ last' = [op |-> "get_songs", limit |-> limit,
                        raised |-> r.raised, result |-> r.value]
            /\ UNCHANGED <<retry_count, failed_attempts, handlerVars,
                           webhookVars, socketVars>>

NextFallback == AttemptRecovery \/ GetSongs

SpecFallback == Init /\ [][NextFallback]_vars

(***************************************************************************)
(* The webhook handler: the requests to POST /webhook and the threads      *)
(* they start run side by side, and beside a caller of simulate_event.     *)
(* "self.metrics[k] += 1" is a read of the counter and a later write of    *)
(* the value read plus one; a thread's step runs up to its next write of   *)
(* a counter, the read before that write included.                         *)
(***************************************************************************)
MaxPosts == 1       \* most requests to POST /webhook
MaxSimulated == 2   \* most calls of simulate_event

\* The arguments given to simulate_event.
SimulatedEvents ==
    { [event_type |-> "generic", data |-> None],
      [event_type |-> "song_update", data |-> None],
      [event_type |-> "song_update", data |-> "string"] }

\* metrics with counter k set to value v
Store(k, v) == [metrics EXCEPT ![k] = v]

\* A request arrives, of at most the given number: webhook_endpoint reads
\* events_received.
Arrive(most) ==
    \E body \in WebhookBodies :
        /\ Len(posts) < most
        /\ posts' = Append(posts,
               [body |-> body, pc |-> "received", status |-> 0,
                message |-> "", tmp |-> metrics.events_received,
                wrote |-> <<>>])
        /\ UNCHANGED <<metrics, workers>>
        /\ UNCHANGED <<handlerVars, last, fallbackVars, socketVars>>

\* A request to POST /webhook arrives.
Post == Arrive(MaxPosts)

\* webhook_endpoint writes events_received.
ReceivedWrite ==
    \E i \in DOMAIN posts :
        /\ posts[i].pc = "received"
        /\ metrics' = Store("events_received", posts[i].tmp + 1)
        /\ posts' = [posts EXCEPT ![i].pc = "try",
                         ![i].wrote = Append(@, "events_received")]
        /\ UNCHANGED workers
        /\ UNCHANGED <<handlerVars, last, fallbackVars, socketVars>>

\* The try block of webhook_endpoint: the body is parsed and validated; the
\* thread is started and 202 returned, or the except clause is entered and
\* reads events_failed.
Try ==
    \E i \in DOMAIN posts :
        /\ posts[i].pc = "try"
        /\ LET parsed == get_json(posts[i].body)
               checked == IF parsed.raised THEN parsed
                          ELSE _validate_payload(posts[i].body)
           IN  IF checked.raised
               THEN /\ posts' = [posts EXCEPT ![i].pc = "except",
                                    ![i].message = checked.message,
                                    ![i].tmp = metrics.events_failed]
                    /\ UNCHANGED workers
               ELSE /\ workers' = Append(workers,
                          [post |-> i, payload |-> posts[i].body,
                           pc |-> "started", tmp |-> 0, wrote |-> <<>>,
                           calls |-> 1])
                    /\ posts' = [posts EXCEPT ![i].pc = "done",
                                    ![i].status = 202,
                                    ![i].message = "accepted"]
        /\ UNCHANGED metrics
        /\ UNCHANGED <<handlerVars, last, fallbackVars, socketVars>>

\* The except clause of webhook_endpoint writes events_failed and
\* returns 400.
ExceptWrite ==
    \E i \in DOMAIN posts :
        /\ posts[i].pc = "except"
        /\ metrics' = Store("events_failed", posts[i].tmp + 1)
        /\ posts' = [posts EXCEPT ![i].pc = "done", ![i].status = 400,
                         ![i].wrote = Append(@, "events_failed")]
        /\ UNCHANGED workers
        /\ UNCHANGED <<handlerVars, last, fallbackVars, socketVars>>

\* Thread k runs _process_event up to its increment and reads the counter.
WorkerDispatch(k) ==
    /\ k \in DOMAIN workers
    /\ workers[k].pc = "started"
    /\ LET counter == _process_event(workers[k].payload) IN
       workers' = [workers EXCEPT ![k].pc = counter,
                       ![k].tmp = metrics[counter]]
    /\ UNCHANGED <<metrics, posts>>
    /\ UNCHANGED <<handlerVars, last, fallbackVars, socketVars>>

\* A plausible slip: the increment of events_processed is outside the try
\* block, so that a thread whose dispatch raised goes on to count the
\* event as processed too.
WorkerCount_CountsBoth(k) ==
    /\ k \in DOMAIN workers
    /\ workers[k].pc \in {"events_processed", "events_failed"}
    /\ metrics' = Store(workers[k].pc, workers[k].tmp + 1)
    /\ workers' = [workers EXCEPT
                      ![k].pc = IF @ = "events_failed" THEN "events_processed"
                                ELSE "done",
                      ![k].tmp = metrics'.events_processed,
                      ![k].wrote = Append(@, workers[k].pc)]
    /\ UNCHANGED posts
    /\ UNCHANGED <<handlerVars, last, fallbackVars, socketVars>>

\* Thread k writes its counter and ends.
WorkerCount(k) ==
    /\ k \in DOMAIN workers
    /\ workers[k].pc \in {"events_processed", "events_failed"}
    /\ metrics' = Store(workers[k].pc, workers[k].tmp + 1)
    /\ workers' = [workers EXCEPT ![k].pc = "done",
                       ![k].wrote = Append(@, workers[k].pc)]
    /\ UNCHANGED posts
    /\ UNCHANGED <<handlerVars, last, fallbackVars, socketVars>>

\* The steps of thread k
WorkerStep(k) == WorkerDispatch(k) \/ WorkerCount(k)

Dispatch == \E k \in DOMAIN workers : WorkerDispatch(k)

Count == \E k \in DOMAIN workers : WorkerCount(k)

\* A call of simulate_event: _process_event runs in the caller's thread,
\* which makes its calls one after the other.  The caller is the thread of
\* request 0; calls counts the calls it has made.
SimulateEvent ==
    \E e \in SimulatedEvents :
        LET mine == {k \in DOMAIN workers : workers[k].post = 0}
            call(n) == [post |-> 0,
                        payload |-> simulate_event(e.event_type, e.data),
                        pc |-> "started", tmp |-> 0, wrote |-> <<>>,
                        calls |-> n]
        IN  /\ IF mine = {}
               THEN workers' = Append(workers, call(1))
               ELSE \E k \in mine :
                        /\ workers[k].pc = "done"
                        /\ workers[k].calls < MaxSimulated
                        /\ workers' = [workers EXCEPT
                                          ![k] = call(workers[k].calls + 1)]
            /\ UNCHANGED <<metrics, posts>>
            /\ UNCHANGED <<handlerVars, last, fallbackVars, socketVars>>

NextWebhook ==
    Post \/ ReceivedWrite \/ Try \/ ExceptWrite \/ Dispatch \/ Count
        \/ SimulateEvent

SpecWebhook == Init /\ [][NextWebhook]_vars

\* The same, every started thread being scheduled until it ends.
SpecWebhookFair ==
    /\ Init
    /\ [][NextWebhook]_vars
    /\ \A k \in 1..(MaxPosts + 1) : WF_vars(WorkerStep(k))

(***************************************************************************)
(* The webhook handler reached through POST /webhook only: nobody calls    *)
(* simulate_event, and the requests and their threads run side by side.    *)
(***************************************************************************)
MaxConcurrentPosts == 2   \* most requests to POST /webhook

\* A request to POST /webhook arrives while others may be in progress.
ConcurrentPost == Arrive(MaxConcurrentPosts)

NextWebhookPosts ==
    ConcurrentPost \/ ReceivedWrite \/ Try \/ ExceptWrite \/ Dispatch \/ Count

SpecWebhookPosts == Init /\ [][NextWebhookPosts]_vars

(***************************************************************************)
(* The socket manager: the events of the connections, handled one at a     *)
(* time.                                                                   *)
(***************************************************************************)
MaxConnects == 3      \* cap on the connections counter
MaxSuggestions == 2   \* cap on the events_received counter

\* The data of join_room and leave_room events.
RoomData ==
    { [room |-> "r", username |-> "u1"], [room |-> "r"], [username |-> "u1"] }

\* The data of suggestion_update events.
SuggestionData ==
    { [query |-> <<"a", "b", "c">>, room |-> "r"],
      [query |-> <<"a", "b", "c", "d">>],
      [query |-> <<"a">>, room |-> "r"],
      [room |-> "r"] }

\* What every socket step does with the outcome r of the handler.
SocketEffect(r) ==
    /\ socket_metrics' = r.metrics
    /\ connected_clients' = r.connected_clients
    /\ UNCHANGED <<handlerVars, fallbackVars, webhookVars>>

\* A client connects.
Connect ==
    \E sid \in Sids \ DOMAIN connected :
        LET r == handle_connect(sid) IN
        /\ socket_metrics.connections < MaxConnects
        /\ connected' = setitem(connected, sid, FALSE)
        /\ rooms' = r.rooms
        /\ SocketEffect(r)
        /\ last' = [op |-> "connect", sid |-> sid, emitted |-> r.emitted]

\* A client disconnects; the server then takes it out of its rooms.
Disconnect ==
    \E sid \in DOMAIN connected :
        LET r == handle_disconnect(sid) IN
        /\ connected' = pop(connected, sid)
        /\ rooms' = [room \in RoomNames |-> r.rooms[room] \ {sid}]
        /\ SocketEffect(r)
        /\ last' = [op |-> "disconnect", sid |-> sid, emitted |-> r.emitted]

\* A join_room event
JoinRoom ==
    \E sid \in DOMAIN connected, data \in RoomData :
        LET r == handle_join_room(sid, data) IN
        /\ connected' = setitem(connected, sid, TRUE)
        /\ rooms' = r.rooms
        /\ SocketEffect(r)
        /\ last' = [op |-> "join_room", sid |-> sid, data |-> data,
                    emitted |-> r.emitted]

\* A leave_room event
LeaveRoom ==
    \E sid \in DOMAIN connected, data \in RoomData :
        LET r == handle_leave_room(sid, data) IN
        /\ rooms' = r.rooms
        /\ SocketEffect(r)
        /\ last' = [op |-> "leave_room", sid |-> sid, data |-> data,
                    emitted |-> r.emitted]
        /\ UNCHANGED connected

\* A suggestion_update event
SuggestionUpdate ==
    \E sid \in DOMAIN connected, data \in SuggestionData :
        LET r == handle_suggestion_update(sid, data) IN
        /\ socket_metrics.events_received < MaxSuggestions
        /\ rooms' = r.rooms
        /\ SocketEffect(r)
        /\ last' = [op |-> "suggestion_update", sid |-> sid, data |-> data,
                    emitted |-> r.emitted]
        /\ UNCHANGED connected

NextSockets ==
    Connect \/ Disconnect \/ JoinRoom \/ LeaveRoom \/ SuggestionUpdate

SpecSockets == Init /\ [][NextSockets]_vars

(***************************************************************************)
(* The handler serving requests side by side: each call of handle runs in  *)
(* a thread of its own, and nothing synchronizes them.  A thread's step    *)
(* holds one access to what the threads share: the cache, the request      *)
(* counter ("+= 1" is a read and a later write), the provider.             *)
(***************************************************************************)
MaxConcurrent == 2   \* most calls of handle

\* The query strings given to handle: too short; two that sanitize to the
\* same key; one that sanitizes to the empty key.
ConcurrentQueries ==
    { <<"a">>, <<"a", "b">>, <<"a", "!", "b">>, <<"!", "!">> }

\* What the provider answers these calls with.
ConcurrentOutcomes ==
    {e \in ExtOutcomes(DEFAULT_MAX_RESULTS) :
        e.kind = "ok" => e.items \in
            { <<>>,
              << [id |-> "v1", title |-> "Ab"] >>,
              << [id |-> "v1", title |-> "Ab"], [id |-> "v2", title |-> "Abc"] >>,
              << [id |-> "v2", title |-> None] >> }}

\* The cache writes made so far, plus one.
NextOrder == 1 + Cardinality({i \in DOMAIN requests : requests[i].order > 0})

\* A request arrives: handle trims the query, returns [] for a short one,
\* sanitizes it and asks whether the cache holds the key.
Lookup ==
    \E q \in ConcurrentQueries :
        LET raw_query == Trimmed(q)
            query == CacheKey(raw_query)
            at(pc, path, status) ==
                [arg |-> q, key |-> query, pc |-> pc, path |-> path,
                 status |-> status, tmp |-> 0, calls |-> 0, ranked |-> <<>>,
                 result |-> <<>>, order |-> 0]
        IN  /\ Len(requests) < MaxConcurrent
            /\ requests' = Append(requests,
                   IF Len(raw_query) < 2 THEN at("done", "short", "ok")
                   ELSE IF query \in DOMAIN cache THEN at("hit", "hit", "")
                   ELSE at("miss", "miss", ""))
            /\ UNCHANGED <<cache, request_count, external_calls>>
            /\ UNCHANGED <<last, fallbackVars, webhookVars, socketVars>>

\* "return jsonify(self.cache[query])": the entry is read and returned.
HitReturn ==
    \E i \in DOMAIN requests :
        /\ requests[i].pc = "hit"
        /\ requests' = [requests EXCEPT ![i].pc = "done", ![i].status = "ok",
                            ![i].result = cache[requests[i].key]]
        /\ UNCHANGED <<cache, request_count, external_calls>>
        /\ UNCHANGED <<last, fallbackVars, webhookVars, socketVars>>

\* search is entered: it returns [] for the empty query, which
\* _rank_results leaves as it is; otherwise it reads the request counter.
CountRead ==
    \E i \in DOMAIN requests :
        /\ requests[i].pc = "miss"
        /\ requests' = [requests EXCEPT
                           ![i].pc = IF requests[i].key = <<>> THEN "store"
                                     ELSE "count",
                           ![i].tmp = IF requests[i].key = <<>> THEN @
                                      ELSE request_count]
        /\ UNCHANGED <<cache, request_count, external_calls>>
        /\ UNCHANGED <<last, fallbackVars, webhookVars, socketVars>>

\* _increment_request_counter writes the counter.
CountWrite ==
    \E i \in DOMAIN requests :
        /\ requests[i].pc = "count"
        /\ request_count' = _increment_request_counter(requests[i].tmp)
        /\ requests' = [requests EXCEPT ![i].pc = "call"]
        /\ UNCHANGED <<cache, external_calls>>
        /\ UNCHANGED <<last, fallbackVars, webhookVars, socketVars>>

\* The rest of search and _rank_results: the provider is called, its
\* answer normalized (a failure gives []), sorted and shuffled.  When
\* _rank_results raises, the except clause of handle uses fallback_response.
Fetch ==
    \E i \in DOMAIN requests, ext \in ConcurrentOutcomes :
        LET t == SearchTry(requests[i].key, EffectiveLimit(0), ext)
            results == IF t.raised THEN <<>> ELSE t.value
        IN  /\ requests[i].pc = "call"
            /\ external_calls' = external_calls + 1
            /\ \E ranked \in _rank_results(results) :
                   requests' = [requests EXCEPT
                       ![i].calls = 1,
                       ![i].pc = IF ranked.raised THEN "done" ELSE "store",
                       ![i].path = IF ranked.raised THEN "except" ELSE "miss",
                       ![i].status =
                           IF ~ranked.raised THEN ""
                           ELSE IF fallback_response.raised THEN "raised"
                           ELSE "ok",
                       ![i].result =
                           IF ranked.raised THEN fallback_response.value
                           ELSE <<>>,
                       ![i].ranked = ranked.value]
            /\ UNCHANGED <<cache, request_count>>
            /\ UNCHANGED <<last, fallbackVars, webhookVars, socketVars>>

\* A plausible slip: setdefault, which keeps the entry another call wrote.
CacheStore_KeepsFirst ==
    \E i \in DOMAIN requests :
        /\ requests[i].pc = "store"
        /\ cache' = [k \in DOMAIN cache \cup {requests[i].key} |->
                        IF k \in DOMAIN cache THEN cache[k]
                        ELSE requests[i].ranked]
        /\ requests' = [requests EXCEPT ![i].pc = "done", ![i].status = "ok",
                            ![i].result = requests[i].ranked,
                            ![i].order = NextOrder]
        /\ UNCHANGED <<request_count, external_calls>>
        /\ UNCHANGED <<last, fallbackVars, webhookVars, socketVars>>

\* "self.cache[query] = ranked; return jsonify(ranked)"
CacheStore ==
    \E i \in DOMAIN requests :
        /\ requests[i].pc = "store"
        /\ cache' = [k \in DOMAIN cache \cup {requests[i].key} |->
                        IF k = requests[i].key THEN requests[i].ranked
                        ELSE cache[k]]
        /\ requests' = [requests EXCEPT ![i].pc = "done", ![i].status = "ok",
                            ![i].result = requests[i].ranked,
                            ![i].order = NextOrder]
        /\ UNCHANGED <<request_count, external_calls>>
        /\ UNCHANGED <<last, fallbackVars, webhookVars, socketVars>>

NextConcurrent ==
    Lookup \/ HitReturn \/ CountRead \/ CountWrite \/ Fetch \/ CacheStore

SpecConcurrent == Init /\ [][NextConcurrent]_vars

(***************************************************************************)
(* Vocabulary of the properties.                                           *)
(***************************************************************************)
\* The last step was a call of handle that got past the length check.
ValidHandle(l) == l.op = "handle" /\ Len(strip(l.arg)) >= 2

\* The sanitized form of the query of a handle call.
KeyOf(l) == sanitize_query(l.arg)

\* The external call of the last invocation failed.
ExternalFailed(l) == l.ext.kind \in {"HttpError", "Exception"}

\* The normalization of the provider's answer fails.
NormalizationFails(items) == \E i \in 1..Len(items) : items[i].id = Malformed

\* A sample without replacement of the fallback song catalog.
IsFallbackSample(r) ==
    /\ Len(r) <= Len(FALLBACK_SONGS)
    /\ \A i \in 1..Len(r) : \E j \in 1..Len(FALLBACK_SONGS) : r[i] = FALLBACK_SONGS[j]
    /\ \A i, j \in 1..Len(r) : i # j => r[i] # r[j]

\* A provider record that has an identifier.
HasIdentifier(item) == item.id \notin {None, Absent, ""}

Unchanged == cache' = cache /\ request_count' = request_count
                 /\ external_calls' = external_calls

(***************************************************************************)
(* C1.  A query whose length after trimming is less than 2 makes handle    *)
(* return the empty sequence, and handle then neither reads nor writes     *)
(* the cache nor calls the provider: the cache and both counters stay as   *)
(* they were, and the answer is empty even when the cache holds results    *)
(* under the query's sanitized form.                                       *)
(***************************************************************************)
C1_ShortQueryEmptyNoEffect ==
    [][(last'.op = "handle" /\ Len(strip(last'.arg)) < 2)
          => (last'.status = "ok" /\ last'.result = <<>> /\ Unchanged)]_vars

\* A short query answered empty while its sanitized form is cached with results.
C1_Witness ==
    /\ last.op = "handle"
    /\ Len(strip(last.arg)) < 2
    /\ Len(last.arg) >= 2
    /\ KeyOf(last) \in DOMAIN cache
    /\ cache[KeyOf(last)] # <<>>
    /\ last.result = <<>>

(***************************************************************************)
(* C2.  As claimed: whenever handle is called with a query whose sanitized *)
(* form is a key of the cache, it returns the cached sequence and leaves   *)
(* the cache and the request counter as they were.                         *)
(***************************************************************************)
C2_Original ==
    [][(last'.op = "handle" /\ KeyOf(last') \in DOMAIN cache)
          => (last'.status = "ok" /\ last'.result = cache[KeyOf(last')]
                 /\ Unchanged)]_vars

(***************************************************************************)
(* C2, amended.  Whenever handle is called with a query of trimmed length  *)
(* at least 2 whose sanitized form is a key of the cache, it returns the   *)
(* cached sequence and leaves the cache and the request counter as they    *)
(* were.                                                                   *)
(***************************************************************************)
C2_CacheHitReturnsCached ==
    [][(ValidHandle(last') /\ KeyOf(last') \in DOMAIN cache)
          => (last'.status = "ok" /\ last'.result = cache[KeyOf(last')]
                 /\ Unchanged)]_vars

\* A hit on a non-empty entry by a query that differs from its sanitized form.
C2_Witness ==
    /\ ValidHandle(last)
    /\ last.path = "hit"
    /\ last.arg # KeyOf(last)
    /\ last.result # <<>>
    /\ last.result = cache[KeyOf(last)]
    /\ request_count >= 1

(***************************************************************************)
(* C3.  When the fetch or the reorder step of handle raises for a fresh    *)
(* valid query, handle returns normally a sequence of at most 5 songs of   *)
(* the fallback catalog and the cache has no entry for the query.          *)
(***************************************************************************)
C3_ExceptionGivesFallback ==
    (ValidHandle(last) /\ last.path = "except")
        => /\ last.status = "ok"
           /\ IsFallbackSample(last.result)
           /\ KeyOf(last) \notin DOMAIN cache

(***************************************************************************)
(* C4.  When the external call fails while handle serves a fresh valid     *)
(* query, the response is fallback content: handle returns normally a      *)
(* sample of the fallback song catalog (the provider's default sample is   *)
(* not empty), not an error.                                               *)
(***************************************************************************)
C4_ProviderFailureGivesFallback ==
    (ValidHandle(last) /\ ExternalFailed(last))
        => /\ last.status = "ok"
           /\ last.result # <<>>
           /\ IsFallbackSample(last.result)

(***************************************************************************)
(* C5.  Every cache entry is created by a handle call whose external       *)
(* fetch for that sanitized query succeeded, a handle call whose external  *)
(* call failed leaves no entry, and no step removes an entry.              *)
(***************************************************************************)
C5_EntriesOnlyFromSuccessfulFetch ==
    [][/\ \A k \in DOMAIN cache' \ DOMAIN cache :
              /\ ValidHandle(last')
              /\ k = KeyOf(last')
              /\ last'.ext.kind = "ok"
              /\ ~NormalizationFails(last'.ext.items)
       /\ (last'.op = "handle" /\ ExternalFailed(last'))
              => KeyOf(last') \notin DOMAIN cache'
       /\ DOMAIN cache \subseteq DOMAIN cache']_vars

(***************************************************************************)
(* C6.  sanitize_query is idempotent: sanitizing a sanitized query gives   *)
(* it back.                                                                *)
(***************************************************************************)
C6_SanitizeIdempotent ==
    last.op = "sanitize_query" => sanitize_query(last.result) = last.result

\* A query that sanitization changes by all three of its steps.
C6_Witness ==
    /\ last.op = "sanitize_query"
    /\ last.result # last.arg
    /\ \E i \in 1..Len(last.arg) : last.arg[i] = "!"
    /\ \E i \in 1..Len(last.arg) : last.arg[i] = "\t"
    /\ \E i \in 1..Len(last.result) : last.result[i] = " "

(***************************************************************************)
(* C7.  The normalization of a response drops every record without an      *)
(* identifier (missing, null or empty) and gives the other records in the  *)
(* order of the response, one output record for each.                      *)
(***************************************************************************)
C7_ParseDropsAndKeepsOrder ==
    (last.op = "_parse_response" /\ ~last.raised)
        => LET kept == SelectSeq(last.arg, HasIdentifier) IN
           /\ Len(last.result) = Len(kept)
           /\ \A i \in 1..Len(kept) :
                  /\ last.result[i].video_id = kept[i].id
                  /\ last.result[i].title = kept[i].title

\* A response with a record dropped and a record kept behind it.
C7_Witness ==
    /\ last.op = "_parse_response"
    /\ ~last.raised
    /\ Len(last.arg) >= 2
    /\ ~HasIdentifier(last.arg[1])
    /\ Len(last.result) = Len(last.arg) - 1
    /\ last.result # <<>>

(***************************************************************************)
(* C8.  search never raises: when the external call fails, with HttpError  *)
(* or with any other exception, or the normalization fails, search         *)
(* returns the empty sequence.                                             *)
(***************************************************************************)
C8_SearchNeverRaises ==
    last.op = "search"
        => /\ last.status = "ok"
           /\ (ExternalFailed(last) \/ NormalizationFails(last.ext.items))
                  => last.result = <<>>

\* A search whose provider answered with a record that cannot be normalized.
C8_Witness ==
    /\ last.op = "search"
    /\ last.ext.kind = "ok"
    /\ NormalizationFails(last.ext.items)
    /\ last.result = <<>>

(***************************************************************************)
(* C9.  The request counter equals the number of external calls issued:    *)
(* a call of search or health_check with a non-empty query issues one      *)
(* external call and adds one to the counter, whether the call succeeds    *)
(* or fails, and a call with the empty query issues none and leaves the    *)
(* counter as it was.                                                      *)
(***************************************************************************)
C9_CounterCountsExternalCalls ==
    [][/\ request_count' = external_calls'
       /\ (last'.op \in {"search", "health_check"} /\ last'.arg # <<>>)
              => /\ request_count' = request_count + 1
                 /\ external_calls' = external_calls + 1
       /\ (last'.op = "search" /\ last'.arg = <<>>)
              => /\ request_count' = request_count
                 /\ external_calls' = external_calls]_vars

\* An empty query after calls that failed and calls that succeeded.
C9_Witness ==
    /\ last.op = "search"
    /\ last.arg = <<>>
    /\ request_count = MaxRequests
    /\ external_calls = MaxRequests

(***************************************************************************)
(* C10.  health_check makes one probe search with limit 1, never raises,   *)
(* and returns true exactly when the external call of the probe            *)
(* succeeded.                                                              *)
(***************************************************************************)
C10_HealthCheckReportsProbe ==
    last.op = "health_check"
        => /\ last.status = "ok"
           /\ last.limit = 1
           /\ last.healthy <=> (last.ext.kind = "ok")

\* The function raises at every call.
AlwaysRaises(func) == \A i \in DOMAIN func : func[i] = "raise"

(***************************************************************************)
(* C11 as stated.  Every invocation of attempt_recovery with a function    *)
(* that always raises calls the function exactly max_retries (3) times     *)
(* and then returns a sample of at most 5 fallback songs, without raising. *)
(***************************************************************************)
C11_Original ==
    (last.op = "attempt_recovery" /\ AlwaysRaises(last.func))
        => /\ last.calls = max_retries
           /\ last.returned = "fallback"
           /\ ~last.raised
           /\ IsFallbackSample(last.result)
           /\ Len(last.result) <= 5

(***************************************************************************)
(* C11, amended.  An invocation of attempt_recovery with a function that   *)
(* always raises, on a handler whose retry_count is r, calls the function  *)
(* exactly max_retries - r times (3 on a fresh handler, 0 once the         *)
(* counter has reached max_retries) and then returns a sample of at most   *)
(* 5 fallback songs, without raising.                                      *)
(***************************************************************************)
C11_RaisingFuncCalledUpToMaxRetries ==
    (last.op = "attempt_recovery" /\ AlwaysRaises(last.func))
        => /\ last.calls = max_retries - last.before
           /\ last.returned = "fallback"
           /\ ~last.raised
           /\ IsFallbackSample(last.result)
           /\ Len(last.result) <= 5

\* An always-raising function given to a handler that has counted one
\* failure already: it is called twice.
C11_Witness ==
    /\ last.op = "attempt_recovery"
    /\ AlwaysRaises(last.func)
    /\ last.before = 1
    /\ last.calls = 2
    /\ last.returned = "fallback"

(***************************************************************************)
(* C16.  For every limit >= 0, get_songs(limit) returns exactly            *)
(* min(limit, 5) entries, pairwise distinct, each an entry of the          *)
(* fallback song catalog, and leaves the catalog as it was.                *)
(***************************************************************************)
C16_GetSongsIsSampleOfCatalog ==
    [][(last'.op = "get_songs" /\ last'.limit >= 0)
          => /\ ~last'.raised
             /\ Len(last'.result) = Min(last'.limit, 5)
             /\ \A i, j \in 1..Len(last'.result) :
                    i # j => last'.result[i] # last'.result[j]
             /\ \A i \in 1..Len(last'.result) :
                    \E j \in 1..Len(FALLBACK_SONGS) :
                        last'.result[i] = FALLBACK_SONGS[j]
             /\ fallback_songs' = fallback_songs]_vars

\* get_songs asked for more songs than the catalog holds.
C16_Witness ==
    /\ last.op = "get_songs"
    /\ last.limit > Len(FALLBACK_SONGS)
    /\ Len(last.result) = 5

(***************************************************************************)
(* C18.  Across the invocations of attempt_recovery on one handler,        *)
(* retry_count is never reset: it never decreases, it equals the number    *)
(* of calls of func that have raised so far, over all invocations, and it  *)
(* never exceeds max_retries (3).                                          *)
(***************************************************************************)
C18_RetryCountCumulative ==
    [][/\ retry_count' >= retry_count
       /\ retry_count' = failed_attempts'
       /\ retry_count' <= max_retries]_vars

\* A later invocation that starts from the failures counted before it.
C18_Witness ==
    /\ last.op = "attempt_recovery"
    /\ last.before = 2
    /\ last.calls = 1
    /\ retry_count = 3
    /\ failed_attempts = 3

\* The string has no two whitespace characters side by side and none at
\* either end.
SingleSpaced(r) ==
    /\ \A i \in 1..Len(r) - 1 : ~(IsSpace(r[i]) /\ IsSpace(r[i + 1]))
    /\ r # <<>> => (~IsSpace(r[1]) /\ ~IsSpace(r[Len(r)]))

(***************************************************************************)
(* C17 as stated.  For every input string the sanitized query contains     *)
(* only alphanumeric characters and single spaces: every character that    *)
(* is not alphanumeric or whitespace has been removed, no two whitespace   *)
(* characters are adjacent, and there is no leading or trailing            *)
(* whitespace.                                                             *)
(***************************************************************************)
C17_Original ==
    last.op = "sanitize_query"
        => /\ \A i \in 1..Len(last.result) :
                  IsAlnum(last.result[i]) \/ last.result[i] = " "
           /\ SingleSpaced(last.result)

(***************************************************************************)
(* C17, amended.  For every input string the sanitized query contains      *)
(* only word characters (alphanumerics and the underscore) and single      *)
(* spaces: every character that is not a word character or whitespace has  *)
(* been removed, no two whitespace characters are adjacent, and there is   *)
(* no leading or trailing whitespace.                                      *)
(***************************************************************************)
C17_OnlyWordCharsAndSingleSpaces ==
    last.op = "sanitize_query"
        => /\ \A i \in 1..Len(last.result) :
                  IsWord(last.result[i]) \/ last.result[i] = " "
           /\ SingleSpaced(last.result)

\* An input with punctuation, an underscore and a run of whitespace: the
\* underscore stays.
C17_Witness ==
    /\ last.op = "sanitize_query"
    /\ \E i \in 1..Len(last.arg) : last.arg[i] = "!"
    /\ \E i \in 1..Len(last.arg) - 1 :
           IsSpace(last.arg[i]) /\ IsSpace(last.arg[i + 1])
    /\ \E i \in 1..Len(last.result) : last.result[i] = "_"

\* The body fails validation: it is not a JSON object, or has no
\* event_type, or has no data.
InvalidBody(body) ==
    body.json # "object" \/ body.event_type = Absent \/ body.data = Absent

\* The message that names the violation.
ViolationMessage(body) ==
    IF body.json = "unparsable" THEN BadRequestMessage
    ELSE IF body.json # "object" THEN "Payload must be a JSON object"
    ELSE IF body.event_type = Absent THEN "Missing 'event_type' field"
    ELSE "Missing 'data' field"

\* The threads started for request i.
WorkersOf(i) == {k \in DOMAIN workers : workers[k].post = i}

(***************************************************************************)
(* C12.  A webhook POST whose payload fails validation (not a JSON         *)
(* object, missing event_type, or missing data) returns HTTP 400 with the  *)
(* violation message, increments events_failed exactly once (one write of  *)
(* the value it read plus one), starts no worker, and never increments     *)
(* events_processed: no thread is ever started for it, and when it has     *)
(* been answered its writes are one of events_received and one of          *)
(* events_failed.                                                          *)
(***************************************************************************)
C12_InvalidPayloadRejected ==
    \A i \in DOMAIN posts :
        InvalidBody(posts[i].body)
            => /\ WorkersOf(i) = {}
               /\ posts[i].status \in {0, 400}
               /\ \A n \in 1..Len(posts[i].wrote) :
                      posts[i].wrote[n] # "events_processed"
               /\ posts[i].pc = "done"
                      => /\ posts[i].status = 400
                         /\ posts[i].message = ViolationMessage(posts[i].body)
                         /\ posts[i].wrote = <<"events_received", "events_failed">>

\* A request without data answered 400 after events_failed went from 0 to 1.
C12_Witness ==
    \E i \in DOMAIN posts :
        /\ posts[i].body.json = "object"
        /\ posts[i].body.event_type # Absent
        /\ posts[i].body.data = Absent
        /\ posts[i].status = 400
        /\ posts[i].tmp = 0
        /\ metrics.events_failed = 1
        /\ metrics.events_processed = 0

\* The dispatch of the event returns: the data is an object, or the event
\* type has no handler that reads the data.
DispatchReturns(body) ==
    body.event_type \notin {"song_update", "playlist_update"}
        \/ body.data = "object"

\* The thread of request i has incremented events_processed and ended.
CountedProcessed(i) ==
    \E k \in WorkersOf(i) :
        workers[k].pc = "done" /\ workers[k].wrote = <<"events_processed">>

(***************************************************************************)
(* C13 as stated, in the form a finite run refutes.  A webhook POST with   *)
(* a valid payload returns 202, and the worker started for it eventually   *)
(* increments events_processed for that request: so a request with a       *)
(* valid payload that has been answered has status 202, and a worker       *)
(* that has ended has incremented events_processed.                        *)
(***************************************************************************)
C13_Original ==
    \A i \in DOMAIN posts :
        (~InvalidBody(posts[i].body) /\ posts[i].pc = "done")
            => /\ posts[i].status = 202
               /\ \A k \in WorkersOf(i) :
                      workers[k].pc = "done"
                          => workers[k].wrote = <<"events_processed">>

(***************************************************************************)
(* C13, amended.  A webhook POST with a valid payload returns 202 without  *)
(* waiting for the processing (the answer is given when the thread is      *)
(* started); and, every started worker being scheduled fairly, if the      *)
(* dispatch of its event returns (the data is an object, or the event      *)
(* type is neither song_update nor playlist_update) the worker eventually  *)
(* increments events_processed once for that request.                      *)
(***************************************************************************)
C13_AcceptedThenProcessed ==
    /\ [](\A i \in DOMAIN posts :
             (~InvalidBody(posts[i].body) /\ posts[i].pc = "done")
                 => (posts[i].status = 202 /\ Cardinality(WorkersOf(i)) = 1))
    /\ \A i \in 1..MaxPosts :
           (i \in DOMAIN posts /\ posts[i].status = 202
                /\ DispatchReturns(posts[i].body))
               ~> CountedProcessed(i)

\* A request answered 202 while its worker has not run yet.
C13_Witness ==
    \E i \in DOMAIN posts :
        /\ posts[i].status = 202
        /\ DispatchReturns(posts[i].body)
        /\ \E k \in WorkersOf(i) : workers[k].pc = "started"
        /\ metrics.events_processed = 0

(***************************************************************************)
(* C19.  Every metrics counter (the webhook's events_received,             *)
(* events_processed and events_failed, the socket manager's connections,   *)
(* disconnections and events_received, the search client's request         *)
(* count) is monotonically non-decreasing: no step lowers one, under any   *)
(* interleaving of the webhook workers and request handlers.               *)
(***************************************************************************)
C19_CountersNeverDecrease ==
    [][/\ metrics'.events_received >= metrics.events_received
       /\ metrics'.events_processed >= metrics.events_processed
       /\ metrics'.events_failed >= metrics.events_failed
       /\ socket_metrics'.connections >= socket_metrics.connections
       /\ socket_metrics'.disconnections >= socket_metrics.disconnections
       /\ socket_metrics'.events_received >= socket_metrics.events_received
       /\ request_count' >= request_count]_vars

\* The message of the last event, when it emitted just one.
Emitted == last.emitted[1]

\* The room an event names, "global" when it names none.
RoomOf(data) == IF "room" \in DOMAIN data THEN data.room ELSE "global"

(***************************************************************************)
(* C14.  Every suggestion_update event broadcasts exactly one message, to  *)
(* the room it names, with exactly 5 synthetic records; the record of      *)
(* index i (0..4) has the identifier <p>_<i>, p being the first three      *)
(* characters of the raw query.  The event never calls the search client   *)
(* and never touches the suggestion cache: the cache, the request counter  *)
(* and the provider's count of calls are left as they were.                *)
(***************************************************************************)
C14_SuggestionUpdateBroadcastsFive ==
    [][last'.op = "suggestion_update"
          => LET data == last'.data
                 query == IF "query" \in DOMAIN data THEN data.query ELSE <<>>
                 p == IF Len(query) <= 3 THEN query
                      ELSE <<query[1], query[2], query[3]>>
                 msg == last'.emitted[1]
             IN  /\ Len(last'.emitted) = 1
                 /\ msg.event = "suggestions"
                 /\ msg.room = RoomOf(data)
                 /\ msg.to = rooms[RoomOf(data)]
                 /\ msg.payload.query = query
                 /\ Len(msg.payload.results) = 5
                 /\ \A i \in 0..4 :
                        msg.payload.results[i + 1].video_id
                            = p \o <<"_", str(i)>>
                 /\ cache' = cache
                 /\ request_count' = request_count
                 /\ external_calls' = external_calls]_vars

\* The query "abcd" broadcast to a room with a member: the identifiers are
\* abc_0 .. abc_4.
C14_Witness ==
    /\ last.op = "suggestion_update"
    /\ "query" \in DOMAIN last.data
    /\ last.data.query = <<"a", "b", "c", "d">>
    /\ Emitted.to # {}
    /\ Emitted.payload.results[1].video_id = <<"a", "b", "c", "_", "0">>
    /\ Emitted.payload.results[5].video_id = <<"a", "b", "c", "_", "4">>

\* The registry holds the connections that have joined a room since they
\* connected, and no other.
RegistryIsJoined ==
    DOMAIN connected_clients = {sid \in DOMAIN connected : connected[sid]}

(***************************************************************************)
(* C15.  After any sequence of connect, join_room, leave_room and          *)
(* disconnect events the registry holds an entry for a connection exactly  *)
(* when the connection is connected and has sent join_room since it        *)
(* connected: join_room adds or overwrites the entry with the username     *)
(* given, leave_room leaves the registry as it was, and disconnect removes *)
(* the entry and changes nothing else when there is none.                  *)
(***************************************************************************)
C15_RegistryTracksJoinedConnections ==
    [][/\ RegistryIsJoined'
       /\ last'.op = "join_room"
           => /\ last'.sid \in DOMAIN connected_clients'
              /\ connected_clients'[last'.sid]
                     = (IF "username" \in DOMAIN last'.data
                        THEN last'.data.username ELSE "anonymous")
              /\ \A sid \in DOMAIN connected_clients \ {last'.sid} :
                     /\ sid \in DOMAIN connected_clients'
                     /\ connected_clients'[sid] = connected_clients[sid]
       /\ last'.op = "leave_room"
           => connected_clients' = connected_clients
       /\ last'.op = "disconnect"
           => /\ last'.sid \notin DOMAIN connected_clients'
              /\ \A sid \in DOMAIN connected_clients \ {last'.sid} :
                     /\ sid \in DOMAIN connected_clients'
                     /\ connected_clients'[sid] = connected_clients[sid]
              /\ last'.sid \notin DOMAIN connected_clients
                     => connected_clients' = connected_clients]_vars

\* A connection that joined and left a room keeps its entry while another,
\* connected, has none.
C15_Witness ==
    /\ last.op = "leave_room"
    /\ last.sid \in DOMAIN connected_clients
    /\ \A room \in RoomNames : last.sid \notin rooms[room]
    /\ \E sid \in DOMAIN connected : sid \notin DOMAIN connected_clients

\* The display name the registry has for the connection, "anonymous" when
\* it has none.
DisplayName(sid) ==
    IF sid \in DOMAIN connected_clients THEN connected_clients[sid]
    ELSE "anonymous"

(***************************************************************************)
(* C20 as stated.  On leave_room(room) the "left" notification goes to     *)
(* the whole room as it stands when the event arrives, the leaving         *)
(* connection included, with the connection's last-known display name or   *)
(* "anonymous", and the connection's membership is removed only after      *)
(* that broadcast.                                                         *)
(***************************************************************************)
C20_Original ==
    [][last'.op = "leave_room"
          => LET room == RoomOf(last'.data)
                 msg == last'.emitted[1]
             IN  /\ Len(last'.emitted) = 1
                 /\ msg.event = "room_left"
                 /\ msg.to = rooms[room]
                 /\ msg.payload.username = DisplayName(last'.sid)
                 /\ last'.sid \notin rooms'[room]]_vars

(***************************************************************************)
(* C20, amended.  On leave_room(room) the connection's membership is       *)
(* removed first, and the "left" notification is then broadcast to the     *)
(* members that remain (not to the leaving connection), with the           *)
(* connection's last-known display name or "anonymous".                    *)
(***************************************************************************)
C20_LeftNotificationToRemainingMembers ==
    [][last'.op = "leave_room"
          => LET room == RoomOf(last'.data)
                 msg == last'.emitted[1]
             IN  /\ Len(last'.emitted) = 1
                 /\ msg.event = "room_left"
                 /\ msg.to = rooms[room] \ {last'.sid}
                 /\ msg.to = rooms'[room]
                 /\ msg.payload.username = DisplayName(last'.sid)
                 /\ last'.sid \notin rooms'[room]]_vars

\* A named member left a room that has another member: the other one is
\* told, the leaver is not.
C20_Witness ==
    /\ last.op = "leave_room"
    /\ Emitted.payload.username = "u1"
    /\ Emitted.to # {}
    /\ last.sid \notin Emitted.to
    /\ last.sid \in DOMAIN connected_clients

\* How many times x occurs in the list s.
Occurrences(s, x) == Cardinality({i \in 1..Len(s) : s[i] = x})

\* a is a permutation of b: the same records, each as many times.
IsPermutation(a, b) ==
    /\ Len(a) = Len(b)
    /\ \A i \in 1..Len(b) : Occurrences(a, b[i]) = Occurrences(b, b[i])

\* What the search client returned to the handle call that l records.
Fetched(l) == search(KeyOf(l), 0, l.ext).value

(***************************************************************************)
(* C22.  On a cache miss where the fetch and the reordering succeed        *)
(* (handle stores and returns), the sequence handle returns is a           *)
(* permutation of the search client's result (the same records, each as    *)
(* many times, none added or dropped), and that same sequence is what the  *)
(* cache holds under the sanitized key.                                    *)
(***************************************************************************)
C22_MissReturnsPermutationAndStoresIt ==
    (last.op = "handle" /\ last.path = "miss")
        => /\ last.status = "ok"
           /\ IsPermutation(last.result, Fetched(last))
           /\ KeyOf(last) \in DOMAIN cache
           /\ cache[KeyOf(last)] = last.result

\* A miss whose two fetched records come back in another order.
C22_Witness ==
    /\ last.op = "handle"
    /\ last.path = "miss"
    /\ ~last.failed
    /\ Len(last.result) = 2
    /\ last.result # Fetched(last)
    /\ cache[KeyOf(last)] = last.result

(***************************************************************************)
(* C25.  For a raw query of trimmed length >= 2 whose sanitized form is    *)
(* the empty string (only punctuation, for example), handle issues no      *)
(* external call and leaves the request counter unchanged, returns an      *)
(* empty sequence, and leaves an empty sequence in the cache under the     *)
(* empty-string key.                                                       *)
(***************************************************************************)
C25_EmptySanitizedQueryCachesEmpty ==
    [][(ValidHandle(last') /\ KeyOf(last') = <<>>)
          => /\ last'.status = "ok"
             /\ last'.result = <<>>
             /\ last'.ext = NoCall
             /\ request_count' = request_count
             /\ external_calls' = external_calls
             /\ <<>> \in DOMAIN cache'
             /\ cache'[<<>>] = <<>>]_vars

\* A query of two punctuation marks, asked for the first time.
C25_Witness ==
    /\ last.op = "handle"
    /\ last.arg = <<"!", "!">>
    /\ last.path = "miss"
    /\ last.result = <<>>
    /\ cache[<<>>] = <<>>
    /\ request_count = 0

(***************************************************************************)
(* C24.  Once retry_count has reached max_retries on a FallbackHandler,    *)
(* every later invocation of attempt_recovery on it returns a sample of    *)
(* the fallback songs without calling the function it is given even once,  *)
(* also when that function would return; and retry_count stays there.      *)
(***************************************************************************)
C24_ExhaustedHandlerNeverCallsFunc ==
    (last.op = "attempt_recovery" /\ last.before >= max_retries)
        => /\ last.calls = 0
           /\ last.returned = "fallback"
           /\ ~last.raised
           /\ IsFallbackSample(last.result)
           /\ Len(last.result) = Min(DEFAULT_LIMIT, Len(FALLBACK_SONGS))
           /\ retry_count = max_retries

\* A function that would return at its first call, given to a handler
\* whose counter is at max_retries.
C24_Witness ==
    /\ last.op = "attempt_recovery"
    /\ last.before = max_retries
    /\ last.func[1] = "return"
    /\ last.calls = 0
    /\ last.returned = "fallback"

\* The counter a thread that has ended must have incremented.
CounterOf(payload) ==
    IF DispatchReturns(payload) THEN "events_processed" ELSE "events_failed"

\* Thread k was started by webhook_endpoint for an accepted payload.
Spawned(k) == k \in DOMAIN workers /\ workers[k].post # 0

\* Thread k has ended.
Ended(k) == k \in DOMAIN workers /\ workers[k].pc = "done"

(***************************************************************************)
(* C23.  Each webhook worker spawned for an accepted payload terminates    *)
(* having incremented exactly one of events_processed (the dispatch        *)
(* completed) or events_failed (the dispatch raised), exactly once: it     *)
(* never makes a second write, its one write stores the value it read      *)
(* plus one in that counter and leaves the other counters alone, and,      *)
(* every started thread being scheduled fairly, it ends.  The response     *)
(* already given for its request stays 202 "accepted" whichever counter    *)
(* it is.                                                                  *)
(***************************************************************************)
C23_WorkerIncrementsOneCounterOnce ==
    /\ [](\A k \in DOMAIN workers :
             Spawned(k)
                 => /\ workers[k].wrote =
                           IF workers[k].pc = "done"
                           THEN <<CounterOf(workers[k].payload)>>
                           ELSE <<>>
                    /\ posts[workers[k].post].pc = "done"
                    /\ posts[workers[k].post].status = 202
                    /\ posts[workers[k].post].message = "accepted")
    /\ [][\A k \in DOMAIN workers :
             (Spawned(k) /\ workers[k].pc # "done" /\ workers'[k].pc = "done")
                 => LET counter == CounterOf(workers[k].payload) IN
                    /\ metrics'[counter] = workers[k].tmp + 1
                    /\ \A c \in DOMAIN metrics :
                           c # counter => metrics'[c] = metrics[c]
                    /\ posts' = posts]_vars
    /\ \A k \in 1..(MaxPosts + 1) : Spawned(k) ~> Ended(k)

\* A worker whose dispatch raised has ended with events_failed counted,
\* its request answered 202.
C23_Witness ==
    \E k \in DOMAIN workers :
        /\ Spawned(k)
        /\ workers[k].pc = "done"
        /\ workers[k].wrote = <<"events_failed">>
        /\ metrics.events_failed = 1
        /\ metrics.events_processed = 0
        /\ posts[workers[k].post].status = 202

\* Every request has been answered and every started thread has ended.
Quiescent ==
    /\ \A i \in DOMAIN posts : posts[i].pc = "done"
    /\ \A k \in DOMAIN workers : workers[k].pc = "done"

(***************************************************************************)
(* C26.  In every quiescent state of the webhook handler (every request    *)
(* answered, every started worker ended) reached through POSTs only, with  *)
(* any number of workers having run side by side, events_processed plus    *)
(* events_failed equals events_received: no increment is lost and every    *)
(* request received is accounted for exactly once.                         *)
(***************************************************************************)
C26_QuiescentCountersAddUp ==
    Quiescent
        => metrics.events_processed + metrics.events_failed
               = metrics.events_received

\* Call i of handle missed the cache, stored its sequence and returned it.
StoredMiss(i) ==
    /\ i \in DOMAIN requests
    /\ requests[i].pc = "done"
    /\ requests[i].path = "miss"

\* No call has written the cache under the key of call j after call j did.
WroteLast(j) ==
    \A k \in DOMAIN requests :
        requests[k].key = requests[j].key
            => requests[k].order <= requests[j].order

(***************************************************************************)
(* C21.  Two calls of handle for the same sanitized query, not yet in the  *)
(* cache, that run side by side can both miss the cache, and each that     *)
(* missed performs an external fetch of its own; after both have           *)
(* completed, the cache entry for the key is the sequence written by       *)
(* whichever of them wrote last (no other call having written the key      *)
(* since), and so is one of the two sequences they returned.               *)
(***************************************************************************)
C21_ConcurrentMissesLastWriteWins ==
    \A i, j \in DOMAIN requests :
        (/\ i # j
         /\ requests[i].key = requests[j].key
         /\ StoredMiss(i)
         /\ StoredMiss(j)
         /\ requests[i].order < requests[j].order
         /\ WroteLast(j))
            => /\ requests[i].key # <<>>
                   => requests[i].calls = 1 /\ requests[j].calls = 1
               /\ requests[i].key \in DOMAIN cache
               /\ cache[requests[i].key] = requests[j].result
               /\ cache[requests[i].key]
                      \in {requests[i].result, requests[j].result}

\* Two calls for the key "ab" have both missed, the provider has been
\* called twice, and the two have returned different sequences: the cache
\* holds the one written last.
C21_Witness ==
    \E i, j \in DOMAIN requests :
        /\ requests[i].key = <<"a", "b">>
        /\ requests[j].key = <<"a", "b">>
        /\ StoredMiss(i)
        /\ StoredMiss(j)
        /\ requests[i].order = 1
        /\ requests[j].order = 2
        /\ requests[i].calls = 1
        /\ requests[j].calls = 1
        /\ external_calls = 2
        /\ requests[i].result # requests[j].result
        /\ cache[<<"a", "b">>] = requests[j].result

====
